---- MODULE Spec2Model ----
(***************************************************************************)
(* Model of the Orpheus TTS service.                                       *)
(*                                                                         *)
(*   Spec     : either one OrpheusOllama object (src/ollama_tts.py) serving *)
(*              a sequence of calls, streaming and non-streaming, driven   *)
(*              by a pull-based consumer, or the Flask handlers of         *)
(*              src/app.py running concurrently on the process-wide model. *)
(*   SpecPure : the pure conversions (sample quantisation, prompt format)  *)
(*              applied to inputs drawn from bounded sets.                 *)
(***************************************************************************)
EXTENDS Integers, Sequences, FiniteSets, TLC

VARIABLES
    variant,        \* which program runs: "ollama" | "app" | "pure" (conversions)
    \* ---- OrpheusOllama object (src/ollama_tts.py) ----
    snac_model,     \* self.snac_model: "None" or "SNAC"
    sample_rate,    \* self.sample_rate
    pc,             \* position of the current request
    mode,           \* "none" | "stream" | "complete": kind of the current request
    reqs,           \* number of generate_speech calls made on the object
    prompt,         \* payload["prompt"] of the current request
    posts,          \* requests.post calls issued by the current request
    response,       \* local `response`: what requests.post returned, if it did
    conn,           \* transport connection of the streaming response
    buffer,         \* local `buffer` of _stream_audio
    cur_done,       \* data.get("done") of the record being processed at a yield
    lines,          \* lines read from response.iter_lines() so far
    encs,           \* calls of snac_model.generate_with_text: text and outcome
    out,            \* items yielded to the consumer so far
    result,         \* return value of the non-streaming call
    err,            \* exception surfaced to the caller
    log,            \* logger events of the streaming loop
    body,           \* body of the non-streaming response, once it was read
    probe,          \* return value of test_connection
    prev,           \* text and PCM size of the call before the current one
    \* ---- Flask application (src/app.py) ----
    model,          \* global `model`: 0 is None, k > 0 the k-th instance built
    built,          \* number of OrpheusModel instances constructed
    hpc,            \* handler -> position
    hroute,         \* handler -> "tts" | "stream"
    hnew,           \* handler -> instance it constructed in load_model (0: none)
    hmodel,         \* handler -> value returned by load_model (0: none yet)
    hout,           \* handler -> items the /tts/stream generator yielded
    hchunks,        \* handler -> byte counts of the chunks /tts collected
    hresp,          \* handler -> body of the /tts response
    \* ---- pure conversions ----
    fn,             \* conversion under test: "none" | "quantize" | "format_prompt"
    arg,            \* its argument
    ret             \* its result, once applied

cvars == <<mode, reqs, body, probe, prev>>
ovars == <<snac_model, sample_rate, pc, cvars, prompt, posts, response, conn,
           buffer, cur_done, lines, encs, out, result, err, log>>
avars == <<model, built, hpc, hroute, hnew, hmodel, hout, hchunks, hresp>>
pvars == <<fn, arg, ret>>
vars == <<variant, ovars, avars, pvars>>

(***************************************************************************)
(* Bounds                                                                  *)
(***************************************************************************)
MaxRequests == 2      \* generate_speech calls per object
MaxLines == 3         \* lines delivered by one streaming response
MaxChunks == 2        \* chunks the external model yields per handler
MaxSampleNum == 64    \* samples range over -MaxSampleNum..MaxSampleNum ...
SampleDen == 32       \* ... in units of 1/SampleDen

(***************************************************************************)
(* Program constants                                                       *)
(***************************************************************************)
AVAILABLE_VOICES == {"tara", "leah", "jess", "leo", "dan", "mia", "zac", "zoe"}
FlushThreshold == 4
DefaultSampleRate == 24000
AppFrameRate == 24000
NChannels == 1
SampWidth == 2
StatusOK == 200

(***************************************************************************)
(* Inputs                                                                  *)
(***************************************************************************)
Voices == {"zoe", "bob"}
Texts == {"Hello world"}
SampleRates == {DefaultSampleRate, 16000}
Tokens == {"", "Hel", "lo w", "orld"}
SampleCounts == {100, 500}
GenTexts == {"", "Hello world"}
StatusCodes == {StatusOK, 500}
AppChunkBytes == {200, 1000}
SampleNums == (0 - MaxSampleNum)..MaxSampleNum
PureTexts == {"", "Hello world", "zoe: hi"}
PureVoices == AVAILABLE_VOICES \cup {"bob", "Tara", ""}

\* One line of the streaming response body:
\*   blank     - empty keep-alive line
\*   garbage   - bytes that json.loads rejects (JSONDecodeError)
\*   nonobject - valid JSON that is not an object (data.get raises)
\*   record    - JSON object with optional "response" and "done"
Line(k, r, d) == [kind |-> k, response |-> r, done |-> d]
BlankLine == Line("blank", "", FALSE)
GarbageLine == Line("garbage", "", FALSE)
NonObjectLine == Line("nonobject", "", FALSE)
Records == {Line("record", r, d) : r \in Tokens, d \in BOOLEAN}
Lines == {BlankLine, GarbageLine, NonObjectLine} \cup Records

\* Outcome of snac_model.generate_with_text: n samples, or an exception.
EncOK(n) == [ok |-> TRUE, n |-> n]
EncRaise == [ok |-> FALSE, n |-> 0]
EncOutcomes == {EncRaise} \cup {EncOK(n) : n \in SampleCounts}

\* Outcome of requests.post: an exception, or a response with a status code.
PostRaise == [ok |-> FALSE, status |-> 0]
NoResponse == PostRaise      \* `response` is unbound
PostStatus(s) == [ok |-> TRUE, status |-> s]
PostOutcomes == {PostRaise} \cup {PostStatus(s) : s \in StatusCodes}

\* Body of the non-streaming response: JSON with a "response" field, or
\* a body response.json() rejects.
GenBody(j, r) == [json |-> j, response |-> r]
GenBodies == {GenBody(FALSE, "")} \cup {GenBody(TRUE, t) : t \in GenTexts}

NoBody == GenBody(FALSE, "<unread>")

\* Return value of test_connection; NoProbe before it was called.
Probe(st, msg) == [status |-> st, message |-> msg]
NoProbe == Probe("none", "")

\* What the streaming run before a non-streaming call received and emitted.
NoPrev == [valid |-> FALSE, text |-> "", nbytes |-> 0, ns |-> {}]

(***************************************************************************)
(* Pure helpers                                                            *)
(***************************************************************************)
\* Conversion to an integer type drops the fraction (toward zero).
TruncDiv(p, d) == IF p >= 0 THEN p \div d ELSE 0 - ((0 - p) \div d)

\* The 16-bit value with the same low 16 bits, and the nearest 16-bit value.
Wrap16(v) == ((v + 32768) % 65536) - 32768
Clamp16(v) == IF v > 32767 THEN 32767 ELSE IF v < -32768 THEN -32768 ELSE v

\* (audio_samples * 32767).astype(np.int16) for the sample num/SampleDen:
\* the values the cast can produce.  In range it is the truncated product.
\* Out of range the float-to-int16 cast is undefined in C: builds wrap
\* modulo 2^16, saturate, or answer the "integer indefinite" value.
Quantize(num) ==
    LET v == TruncDiv(num * 32767, SampleDen) IN
    IF v >= -32768 /\ v <= 32767 THEN {v}
    ELSE {Wrap16(v), Clamp16(v), -32768}

format_promptNoFallback(text, voice) == voice \o ": " \o text

\* format_prompt: unknown voices fall back to "tara".
format_prompt(text, voice) ==
    LET v == IF voice \notin AVAILABLE_VOICES THEN "tara" ELSE voice
    IN  v \o ": " \o text

\* wave.open(..., "wb") ... writeframes(data) ... close(): a RIFF/WAVE file
\* of a 44-byte header and a data chunk that declares and carries datalen
\* bytes.
WaveFile(nchannels, sampwidth, framerate, datalen) ==
    [kind |-> "wav", nchannels |-> nchannels, sampwidth |-> sampwidth,
     framerate |-> framerate, datalen |-> datalen,
     nbytes |-> 44 + datalen]

Int16BytesOnePerSample(n) == n

\* (audio_samples * 32767).astype(np.int16).tobytes() of n samples.
Int16Bytes(n) == 2 * n
PcmChunk(n) == [kind |-> "pcm", nbytes |-> Int16Bytes(n)]

\* `return b""`, and the absence of a return value.
EmptyBytes == [kind |-> "bytes", nbytes |-> 0]
NoResult == [kind |-> "none", nbytes |-> 0]

StreamHeaderNoHeader(rate) == PcmChunk(0)

\* Header yielded by _stream_audio: a wave file with an empty frame.
StreamHeader(rate) == WaveFile(NChannels, SampWidth, rate, 0)

\* Container returned by _generate_complete_audio for n codec samples.
CompleteWave(rate, n) == WaveFile(NChannels, SampWidth, rate, Int16Bytes(n))

ShouldFlushEarly(buf) == Len(buf) >= FlushThreshold - 1

\* `if len(buffer) >= 4`
ShouldFlush(buf) == Len(buf) >= FlushThreshold

BufferAfterFlushKept(buf) == buf

\* Line 232: `buffer = ""` once the chunk of a threshold flush is ready.
BufferAfterFlush(buf) == ""

SnacUnavailableUnchecked(m) == FALSE

\* `if self.snac_model is None`
SnacUnavailable(m) == m = "None"

IsEmptyTextUnchecked(t) == FALSE

\* `if not generated_text`
IsEmptyText(t) == t = ""

ProbeResultAnyResponse(post) ==
    IF post.ok THEN Probe("connected", "Successfully connected to Ollama")
    ELSE Probe("error", "Failed to connect: exception")

\* test_connection's return value for each outcome of its transport call.
ProbeResult(post) ==
    IF ~post.ok THEN Probe("error", "Failed to connect: exception")
    ELSE IF post.status = StatusOK
      THEN Probe("connected", "Successfully connected to Ollama")
      ELSE Probe("error", "Failed to connect: status")

RECURSIVE CountKind(_, _)
CountKind(q, k) ==
    IF q = <<>> THEN 0
    ELSE (IF Head(q).kind = k THEN 1 ELSE 0) + CountKind(Tail(q), k)

RECURSIVE TotalBytes(_, _)
TotalBytes(q, k) ==
    IF q = <<>> THEN 0
    ELSE (IF Head(q).kind = k THEN Head(q).nbytes ELSE 0)
         + TotalBytes(Tail(q), k)

\* Text of the records whose token reached `buffer += token`.
RECURSIVE Received(_)
Received(ls) ==
    IF ls = <<>> THEN ""
    ELSE (IF Head(ls).kind = "record" THEN Head(ls).response ELSE "")
         \o Received(Tail(ls))

\* Text handed to the codec in calls that returned samples.
RECURSIVE Encoded(_)
Encoded(es) ==
    IF es = <<>> THEN ""
    ELSE (IF Head(es).ok THEN Head(es).text ELSE "") \o Encoded(Tail(es))

EncCall(text, o) == [text |-> text, ok |-> o.ok, n |-> o.n]

Terminal == {"returned", "raised", "closed"}

\* The connection of `response` when _stream_audio is left before the body
\* was read to its end (non-200 return, break at done, close of the
\* generator).  The code never calls response.close(): the frame is torn
\* down, `response` and its iter_lines() generator are finalised, and the
\* socket is closed.
ConnAtExit(c) == IF c = "held" THEN "released" ELSE c

\* The connection after one more step of iter_lines().  Reading the end of
\* the body gives the connection back inside the iteration, possibly with
\* lines still to be delivered; so does a connection-level failure before it
\* is raised.  A failure in decoding the body does not: the connection is
\* held while the exception, whose traceback refers to the frame and its
\* `response`, is alive.
ConnAfterRead(c) == IF c = "held" THEN {"released", "held"} ELSE {c}

(***************************************************************************)
(* Init                                                                    *)
(***************************************************************************)
Handlers == {1, 2}

\* The object before any call; also its value while the Flask app runs.
OIdle ==
    /\ pc = "idle"
    /\ mode = "none"
    /\ reqs = 0
    /\ prompt = ""
    /\ posts = 0
    /\ response = NoResponse
    /\ conn = "none"
    /\ buffer = ""
    /\ cur_done = FALSE
    /\ lines = <<>>
    /\ encs = <<>>
    /\ out = <<>>
    /\ result = NoResult
    /\ err = "none"
    /\ log = <<>>
    /\ body = NoBody
    /\ probe = NoProbe
    /\ prev = NoPrev

\* OrpheusOllama.__init__: SNAC() succeeds, raises, or is not importable.
OInit ==
    /\ snac_model \in {"None", "SNAC"}
    /\ sample_rate \in SampleRates
    /\ OIdle

\* The handlers before any request.
HandlersIdle ==
    /\ hpc = [h \in Handlers |-> "idle"]
    /\ hroute = [h \in Handlers |-> "tts"]
    /\ hnew = [h \in Handlers |-> 0]
    /\ hmodel = [h \in Handlers |-> 0]
    /\ hout = [h \in Handlers |-> <<>>]
    /\ hchunks = [h \in Handlers |-> <<>>]
    /\ hresp = [h \in Handlers |-> NoResult]

\* app.py when it starts serving: imported by a WSGI server (`model = None`),
\* or run as __main__, where load_model() has completed before app.run.
AInit ==
    /\ \/ model = 0 /\ built = 0
       \/ model = 1 /\ built = 1
    /\ HandlersIdle

\* No conversion under test.
PureIdle == fn = "none" /\ arg = <<>> /\ ret = <<>>

Init ==
    \/ /\ variant = "ollama"
       /\ OInit
       /\ model = 0 /\ built = 0 /\ HandlersIdle
       /\ PureIdle
    \/ /\ variant = "app"
       /\ snac_model = "None" /\ sample_rate = DefaultSampleRate /\ OIdle
       /\ AInit
       /\ PureIdle

(***************************************************************************)
(* OrpheusOllama.generate_speech                                           *)
(***************************************************************************)
\* _generate_complete_audio(prompt), run to completion: the transport call,
\* the body, the codec and the container.
GenerateCompleteAudio(post) ==
    /\ posts' = 1
    /\ response' = post
    /\ IF ~post.ok
         THEN /\ pc' = "raised" /\ err' = "TransportError"
              /\ result' = NoResult /\ encs' = <<>> /\ body' = NoBody
       ELSE IF post.status # StatusOK
         THEN /\ pc' = "raised" /\ err' = "RuntimeError"
              /\ result' = NoResult /\ encs' = <<>> /\ body' = NoBody
       ELSE \E b \in GenBodies :
            /\ body' = b
            /\ IF ~b.json
                 THEN /\ pc' = "raised" /\ err' = "JSONDecodeError"
                      /\ result' = NoResult /\ encs' = <<>>
               ELSE IF IsEmptyText(b.response)
                 THEN /\ pc' = "returned" /\ err' = "none"
                      /\ result' = EmptyBytes /\ encs' = <<>>
               ELSE \E enc \in EncOutcomes :
                    /\ encs' = <<EncCall(b.response, enc)>>
                    /\ IF ~enc.ok
                         THEN /\ pc' = "raised" /\ err' = "EncoderError"
                              /\ result' = NoResult
                         ELSE /\ pc' = "returned" /\ err' = "none"
                              /\ result' = CompleteWave(sample_rate, enc.n)

\* What a finished streaming run received and emitted, for the non-streaming
\* call that follows it.
RunSummary ==
    IF /\ mode = "stream" /\ pc = "returned"
       /\ \A i \in 1..Len(encs) : encs[i].ok
      THEN [valid |-> TRUE,
            text |-> Received(lines),
            nbytes |-> TotalBytes(out, "pcm"),
            ns |-> {encs[i].n : i \in 1..Len(encs)}]
      ELSE NoPrev

GenerateSpeech(text, voice, stream) ==
    /\ variant = "ollama"
    /\ pc \in {"idle"} \cup Terminal
    /\ reqs < MaxRequests
    /\ reqs' = reqs + 1
    /\ mode' = IF stream THEN "stream" ELSE "complete"
    /\ probe' = NoProbe
    /\ prev' = IF stream THEN NoPrev ELSE RunSummary
    /\ buffer' = ""
    /\ cur_done' = FALSE
    /\ lines' = <<>>
    /\ out' = <<>>
    /\ log' = <<>>
    /\ conn' = "none"
    /\ IF SnacUnavailable(snac_model)
         THEN /\ pc' = "raised" /\ err' = "RuntimeError"
              /\ prompt' = "" /\ posts' = 0 /\ encs' = <<>>
              /\ result' = NoResult /\ response' = NoResponse
              /\ body' = NoBody
       ELSE IF stream
         THEN /\ pc' = "created" /\ err' = "none"
              /\ prompt' = format_prompt(text, voice)
              /\ posts' = 0 /\ encs' = <<>> /\ result' = NoResult
              /\ response' = NoResponse /\ body' = NoBody
       ELSE   /\ prompt' = format_prompt(text, voice)
              /\ \E post \in PostOutcomes : GenerateCompleteAudio(post)
    /\ UNCHANGED <<variant, snac_model, sample_rate, avars, pvars>>

(***************************************************************************)
(* OrpheusOllama._stream_audio, one action per resumption of the generator *)
(* and per line of the response                                            *)
(***************************************************************************)
NextHeaderPostFirst ==
    /\ variant = "ollama"
    /\ pc = "created"
    /\ posts' = posts + 1
    /\ out' = Append(out, StreamHeader(sample_rate))
    /\ pc' = "at_header"
    /\ UNCHANGED <<variant, snac_model, sample_rate, cvars, prompt, response, conn,
                   buffer, cur_done, lines, encs, result, err, log, avars, pvars>>

\* First next(): lines 181-194, build the header and yield it.
NextHeader ==
    /\ variant = "ollama"
    /\ pc = "created"
    /\ out' = Append(out, StreamHeader(sample_rate))
    /\ pc' = "at_header"
    /\ UNCHANGED <<variant, snac_model, sample_rate, cvars, prompt, posts, response, conn,
                   buffer, cur_done, lines, encs, result, err, log, avars, pvars>>

\* next() after the header: lines 196-210, the transport request.
ResumePost(post) ==
    /\ variant = "ollama"
    /\ pc = "at_header"
    /\ posts' = posts + 1
    /\ response' = post
    /\ buffer' = ""
    /\ IF ~post.ok
         THEN /\ pc' = "raised" /\ err' = "TransportError" /\ conn' = "none"
       ELSE IF post.status # StatusOK
         THEN /\ pc' = "returned" /\ err' = "none"
              /\ conn' = ConnAtExit("held")
       ELSE   /\ pc' = "loop" /\ err' = "none" /\ conn' = "held"
    /\ UNCHANGED <<variant, snac_model, sample_rate, cvars, prompt, cur_done,
                   lines, encs, out, result, log, avars, pvars>>

\* Lines 235-242 with `buffer` holding buf: the done check and the drain.
DoneCheck(buf, done, encs0, out0) ==
    IF ~done
      THEN /\ pc' = "loop" /\ encs' = encs0 /\ out' = out0 /\ log' = log
    ELSE IF buf = ""
      THEN /\ pc' = "returned" /\ encs' = encs0 /\ out' = out0 /\ log' = log
    ELSE \E enc \in EncOutcomes :
         /\ encs' = Append(encs0, EncCall(buf, enc))
         /\ IF enc.ok
              THEN /\ pc' = "at_final"
                   /\ out' = Append(out0, PcmChunk(enc.n))
                   /\ log' = log
              ELSE /\ pc' = "loop"
                   /\ out' = out0
                   /\ log' = Append(log, "error")

OnJsonDecodeErrorBreak ==
    /\ log' = Append(log, "warning")
    /\ pc' = "returned"
    /\ UNCHANGED <<buffer, cur_done, encs, out>>

\* `except json.JSONDecodeError`: warn and go on with the next line.
OnJsonDecodeError ==
    /\ log' = Append(log, "warning")
    /\ UNCHANGED <<pc, buffer, cur_done, encs, out>>

\* One iteration of `for line in response.iter_lines()`, lines 212-249, up
\* to the next yield, break or continue.
ReadLine(line) ==
    /\ variant = "ollama"
    /\ pc = "loop"
    /\ Len(lines) < MaxLines
    /\ lines' = Append(lines, line)
    /\ IF line.kind = "blank"
         THEN UNCHANGED <<pc, buffer, cur_done, encs, out, log>>
       ELSE IF line.kind = "garbage"
         THEN OnJsonDecodeError
       ELSE IF line.kind = "nonobject"
         THEN /\ log' = Append(log, "error")
              /\ UNCHANGED <<pc, buffer, cur_done, encs, out>>
       ELSE LET buf == buffer \o line.response IN
            /\ cur_done' = line.done
            /\ IF ShouldFlush(buf)
                 THEN \E enc \in EncOutcomes :
                      /\ encs' = Append(encs, EncCall(buf, enc))
                      /\ IF enc.ok
                           THEN /\ buffer' = BufferAfterFlush(buf)
                                /\ out' = Append(out, PcmChunk(enc.n))
                                /\ pc' = "at_chunk"
                                /\ log' = log
                           ELSE /\ buffer' = buf
                                /\ log' = Append(log, "error")
                                /\ UNCHANGED <<pc, out>>
                 ELSE /\ buffer' = buf
                      /\ DoneCheck(buf, line.done, encs, out)
    /\ conn' \in (IF pc' = "returned" THEN {ConnAtExit(conn)}
                                      ELSE ConnAfterRead(conn))
    /\ UNCHANGED <<variant, snac_model, sample_rate, cvars, prompt, posts,
                   response, result, err, avars, pvars>>

\* next() after a chunk yielded at line 233: resume at the done check.
ResumeChunk ==
    /\ variant = "ollama"
    /\ pc = "at_chunk"
    /\ DoneCheck(buffer, cur_done, encs, out)
    /\ conn' = (IF pc' = "returned" THEN ConnAtExit(conn) ELSE conn)
    /\ UNCHANGED <<variant, snac_model, sample_rate, cvars, prompt, posts,
                   response, buffer, cur_done, lines, result, err, avars, pvars>>

\* next() after the drain chunk yielded at line 241: `break`, then return.
ResumeFinal ==
    /\ variant = "ollama"
    /\ pc = "at_final"
    /\ pc' = "returned"
    /\ conn' = ConnAtExit(conn)
    /\ UNCHANGED <<variant, snac_model, sample_rate, cvars, prompt, posts, response,
                   buffer, cur_done, lines, encs, out, result, err, log, avars, pvars>>

\* iter_lines() is exhausted: the loop ends and the generator returns.
StreamEnd ==
    /\ variant = "ollama"
    /\ pc = "loop"
    /\ pc' = "returned"
    /\ conn' = "released"
    /\ UNCHANGED <<variant, snac_model, sample_rate, cvars, prompt, posts,
                   response, buffer, cur_done, lines, encs, out, result, err,
                   log, avars, pvars>>

\* iter_lines() raises and the outer handler logs and re-raises (251-253).
\* A connection-level failure is closed by the transport library before the
\* exception arrives; a failure in decoding the body is not, and the
\* traceback of the exception keeps the frame and its `response` alive, so
\* the connection stays open until the consumer drops the exception.
StreamRaise ==
    /\ variant = "ollama"
    /\ pc = "loop"
    /\ pc' = "raised"
    /\ err' = "TransportError"
    /\ conn' \in ConnAfterRead(conn)
    /\ UNCHANGED <<variant, snac_model, sample_rate, cvars, prompt, posts, response,
                   buffer, cur_done, lines, encs, out, result, log, avars, pvars>>

\* The consumer closes the generator while it is suspended: GeneratorExit is
\* not an Exception, so no handler of _stream_audio intercepts it.
Close ==
    /\ variant = "ollama"
    /\ pc \in {"created", "at_header", "at_chunk", "at_final"}
    /\ pc' = "closed"
    /\ conn' = ConnAtExit(conn)
    /\ UNCHANGED <<variant, snac_model, sample_rate, cvars, prompt, posts, response,
                   buffer, cur_done, lines, encs, out, result, err, log, avars, pvars>>

(***************************************************************************)
(* OrpheusOllama.test_connection                                           *)
(***************************************************************************)
\* One call between synthesis calls: a single transport request whose
\* outcome, exception included, becomes the returned status/message pair.
TestConnection(post) ==
    /\ variant = "ollama"
    /\ pc \in {"idle"} \cup Terminal
    /\ mode' = "probe"
    /\ pc' = "returned"
    /\ probe' = ProbeResult(post)
    /\ posts' = 1
    /\ response' = post
    /\ err' = "none"
    /\ prompt' = "Hello"
    /\ conn' = "none"
    /\ buffer' = ""
    /\ cur_done' = FALSE
    /\ lines' = <<>>
    /\ encs' = <<>>
    /\ out' = <<>>
    /\ log' = <<>>
    /\ result' = NoResult
    /\ body' = NoBody
    /\ prev' = NoPrev
    /\ UNCHANGED <<variant, snac_model, sample_rate, reqs, avars, pvars>>

ONext ==
    \/ \E post \in PostOutcomes : TestConnection(post)
    \/ \E text \in Texts, voice \in Voices, stream \in BOOLEAN :
            GenerateSpeech(text, voice, stream)
    \/ NextHeader
    \/ \E post \in PostOutcomes : ResumePost(post)
    \/ \E line \in Lines : ReadLine(line)
    \/ ResumeChunk
    \/ ResumeFinal
    \/ StreamEnd
    \/ StreamRaise
    \/ Close

(***************************************************************************)
(* src/app.py: request handlers, each on its own thread                    *)
(***************************************************************************)
RECURSIVE SumSeq(_)
SumSeq(q) == IF q = <<>> THEN 0 ELSE Head(q) + SumSeq(Tail(q))

\* Header yielded by stream_text_to_speech.generate.
AppHeader == WaveFile(NChannels, SampWidth, AppFrameRate, 0)
\* A chunk of audio bytes yielded by the external model's generate_speech.
AppChunk(nbytes) == [kind |-> "pcm", nbytes |-> nbytes]

AudioDataLastChunk(chunks) ==
    IF chunks = <<>> THEN 0 ELSE chunks[Len(chunks)]

\* text_to_speech, lines 77-79: audio_data after `audio_data += audio_chunk`
\* for every chunk, as a byte count.
AudioData(chunks) == SumSeq(chunks)

\* `if model is None` as evaluated by load_model.
ModelUnset(m) == m = 0

\* A request arrives at /tts or /tts/stream: the body is validated.
Request(h, route, valid) ==
    /\ variant = "app"
    /\ hpc[h] = "idle"
    /\ hroute' = [hroute EXCEPT ![h] = route]
    /\ hpc' = [hpc EXCEPT ![h] = IF valid THEN "load_check" ELSE "resp400"]
    /\ UNCHANGED <<variant, ovars, pvars, model, built, hnew, hmodel, hout, hchunks,
                   hresp>>

\* load_model, line 18: the test of the global.
LoadCheck(h) ==
    /\ variant = "app"
    /\ hpc[h] = "load_check"
    /\ hpc' = [hpc EXCEPT ![h] = IF ModelUnset(model) THEN "load_build"
                                                      ELSE "load_return"]
    /\ UNCHANGED <<variant, ovars, pvars, model, built, hroute, hnew, hmodel, hout,
                   hchunks, hresp>>

\* load_model, line 20, right-hand side: OrpheusModel(...) is constructed,
\* or raises and the handler answers 500.
LoadBuild(h, ok) ==
    /\ variant = "app"
    /\ hpc[h] = "load_build"
    /\ IF ok
         THEN /\ built' = built + 1
              /\ hnew' = [hnew EXCEPT ![h] = built + 1]
              /\ hpc' = [hpc EXCEPT ![h] = "load_assign"]
         ELSE /\ hpc' = [hpc EXCEPT ![h] = "resp500"]
              /\ UNCHANGED <<built, hnew>>
    /\ UNCHANGED <<variant, ovars, pvars, model, hroute, hmodel, hout, hchunks, hresp>>

\* load_model, line 20: the store to the global.
LoadAssign(h) ==
    /\ variant = "app"
    /\ hpc[h] = "load_assign"
    /\ model' = hnew[h]
    /\ hpc' = [hpc EXCEPT ![h] = "load_return"]
    /\ UNCHANGED <<variant, ovars, pvars, built, hroute, hnew, hmodel, hout, hchunks,
                   hresp>>

\* load_model, line 21: `return model` reads the global again.
LoadReturn(h) ==
    /\ variant = "app"
    /\ hpc[h] = "load_return"
    /\ hmodel' = [hmodel EXCEPT ![h] = model]
    /\ hpc' = [hpc EXCEPT ![h] = IF hroute[h] = "tts" THEN "synth"
                                                      ELSE "gen_created"]
    /\ UNCHANGED <<variant, ovars, pvars, model, built, hroute, hnew, hout, hchunks,
                   hresp>>

\* text_to_speech, lines 78-79: one chunk of syn_tokens joins audio_data.
TtsChunk(h, nbytes) ==
    /\ variant = "app"
    /\ hpc[h] = "synth"
    /\ Len(hchunks[h]) < MaxChunks
    /\ hchunks' = [hchunks EXCEPT ![h] = Append(@, nbytes)]
    /\ UNCHANGED <<variant, ovars, pvars, model, built, hpc, hroute, hnew, hmodel,
                   hout, hresp>>

\* text_to_speech, lines 82-93: syn_tokens is exhausted, the frames are
\* written and the file is sent.
TtsFinish(h) ==
    /\ variant = "app"
    /\ hpc[h] = "synth"
    /\ hresp' = [hresp EXCEPT ![h] =
                    WaveFile(NChannels, SampWidth, AppFrameRate,
                             AudioData(hchunks[h]))]
    /\ hpc' = [hpc EXCEPT ![h] = "resp200"]
    /\ UNCHANGED <<variant, ovars, pvars, model, built, hroute, hnew, hmodel, hout,
                   hchunks>>

\* text_to_speech, lines 95-96: generation raised.
TtsFail(h) ==
    /\ variant = "app"
    /\ hpc[h] = "synth"
    /\ hpc' = [hpc EXCEPT ![h] = "resp500"]
    /\ UNCHANGED <<variant, ovars, pvars, model, built, hroute, hnew, hmodel, hout,
                   hchunks, hresp>>

\* generate(), lines 126-135: the header is built and yielded.
GenHeader(h) ==
    /\ variant = "app"
    /\ hpc[h] = "gen_created"
    /\ hout' = [hout EXCEPT ![h] = Append(@, AppHeader)]
    /\ hpc' = [hpc EXCEPT ![h] = "gen_iter"]
    /\ UNCHANGED <<variant, ovars, pvars, model, built, hroute, hnew, hmodel,
                   hchunks, hresp>>

\* generate(), lines 146-147: the next chunk of syn_tokens is yielded.
GenChunk(h, nbytes) ==
    /\ variant = "app"
    /\ hpc[h] = "gen_iter"
    /\ Len(hout[h]) < MaxChunks + 1
    /\ hout' = [hout EXCEPT ![h] = Append(@, AppChunk(nbytes))]
    /\ UNCHANGED <<variant, ovars, pvars, model, built, hpc, hroute, hnew, hmodel,
                   hchunks, hresp>>

\* generate(): syn_tokens is exhausted, raises, or the client goes away.
GenEnd(h, how) ==
    /\ variant = "app"
    /\ hpc[h] = "gen_iter"
    /\ hpc' = [hpc EXCEPT ![h] = how]
    /\ UNCHANGED <<variant, ovars, pvars, model, built, hroute, hnew, hmodel, hout,
                   hchunks, hresp>>

ANext ==
    \E h \in Handlers :
        \/ \E route \in {"tts", "stream"}, valid \in BOOLEAN :
                Request(h, route, valid)
        \/ LoadCheck(h)
        \/ \E ok \in BOOLEAN : LoadBuild(h, ok)
        \/ LoadAssign(h)
        \/ LoadReturn(h)
        \/ \E nbytes \in AppChunkBytes : TtsChunk(h, nbytes)
        \/ TtsFinish(h)
        \/ TtsFail(h)
        \/ GenHeader(h)
        \/ \E nbytes \in AppChunkBytes : GenChunk(h, nbytes)
        \/ \E how \in {"stream_done", "stream_failed", "stream_closed"} :
                GenEnd(h, how)

Next == ONext \/ ANext

Spec == Init /\ [][Next]_vars

(***************************************************************************)
(* The pure conversions applied to inputs drawn from bounded sets          *)
(***************************************************************************)
InitPure ==
    /\ variant = "pure"
    /\ snac_model = "None" /\ sample_rate = DefaultSampleRate /\ OIdle
    /\ model = 0 /\ built = 0 /\ HandlersIdle
    /\ ret = <<>>
    /\ \/ fn = "quantize" /\ arg \in {<<n>> : n \in SampleNums}
       \/ fn = "format_prompt"
          /\ arg \in {<<t, v>> : t \in PureTexts, v \in PureVoices}

\* One sample goes through the int16 conversion of lines 152 and 228.
ApplyQuantize(r) ==
    /\ variant = "pure" /\ fn = "quantize" /\ ret = <<>>
    /\ r \in Quantize(arg[1])
    /\ ret' = <<r>>
    /\ UNCHANGED <<variant, ovars, avars, fn, arg>>

\* format_prompt(text, voice) is called.
ApplyFormatPrompt ==
    /\ variant = "pure" /\ fn = "format_prompt" /\ ret = <<>>
    /\ ret' = <<format_prompt(arg[1], arg[2])>>
    /\ UNCHANGED <<variant, ovars, avars, fn, arg>>

NextPure ==
    \/ \E r \in -32768..32767 : ApplyQuantize(r)
    \/ ApplyFormatPrompt

SpecPure == InitPure /\ [][NextPure]_vars

(***************************************************************************)
(* Observations used by the properties                                     *)
(***************************************************************************)
Streaming == variant = "ollama" /\ mode = "stream"
Started == pc \in {"at_header", "loop", "at_chunk", "at_final", "returned"}
AllEncOK == \A i \in 1..Len(encs) : encs[i].ok
SomeEncFailed == \E i \in 1..Len(encs) : ~encs[i].ok

\* Items of q: nothing, or one header followed by PCM chunks only.
HeaderThenPcm(q, header) ==
    /\ CountKind(q, "wav") <= 1
    /\ q # <<>> => q[1] = header
    /\ \A i \in 2..Len(q) : q[i].kind = "pcm"

(***************************************************************************)
(* C1: in every streaming run, _stream_audio and the /tts/stream generator *)
(* emit the container header exactly once, as the first output item: no    *)
(* PCM chunk precedes it and no second header follows it.                  *)
(***************************************************************************)
HeaderOnceFirst ==
    /\ Streaming => /\ HeaderThenPcm(out, StreamHeader(sample_rate))
                    /\ Started => CountKind(out, "wav") = 1
                    /\ (pc = "raised" /\ posts > 0) => CountKind(out, "wav") = 1
    /\ \A h \in Handlers :
          /\ HeaderThenPcm(hout[h], AppHeader)
          /\ hpc[h] \in {"gen_iter", "stream_done", "stream_failed",
                         "stream_closed"} => CountKind(hout[h], "wav") = 1

HeaderOnceFirstWitness ==
    /\ Streaming /\ pc = "returned"
    /\ Len(out) = 3 /\ out[1].kind = "wav"
    /\ out[2].kind = "pcm" /\ out[3].kind = "pcm"

(***************************************************************************)
(* C2: the accumulator is flushed exactly when it reaches 4 characters or  *)
(* on the final record, so whenever the next record is about to be read    *)
(* the buffer holds fewer than 4 characters, for any encoder outcome.      *)
(***************************************************************************)
BufferBelowThresholdWhenReading ==
    (Streaming /\ pc = "loop") => Len(buffer) < 4

(***************************************************************************)
(* C3: in the scenario (voice "zoe", fragments "Hel", "lo w", "orld", then *)
(* done=true, 100 samples per codec call) the output is the header and     *)
(* exactly three PCM chunks with 600 bytes of PCM.  The code produces the  *)
(* header and exactly two PCM chunks with 400 bytes of PCM.                *)
(***************************************************************************)
Rec(r, d) == Line("record", r, d)

ScenarioLines ==
    { <<Rec("Hel", FALSE), Rec("lo w", FALSE), Rec("orld", TRUE)>>,
      <<Rec("Hel", FALSE), Rec("lo w", FALSE), Rec("orld", FALSE),
        Rec("", TRUE)>> }

ScenarioRun ==
    /\ Streaming /\ pc = "returned"
    /\ prompt = "zoe: Hello world"
    /\ response = PostStatus(200)
    /\ lines \in ScenarioLines
    /\ \A i \in 1..Len(encs) : encs[i].ok /\ encs[i].n = 100

ScenarioThreeChunks ==
    ScenarioRun => /\ Len(out) = 4
                   /\ CountKind(out, "pcm") = 3
                   /\ TotalBytes(out, "pcm") = 600

ScenarioTwoChunks ==
    ScenarioRun => /\ Len(out) = 3
                   /\ out[1].kind = "wav" /\ out[1].datalen = 0
                   /\ out[2] = [kind |-> "pcm", nbytes |-> 200]
                   /\ out[3] = [kind |-> "pcm", nbytes |-> 200]
                   /\ TotalBytes(out, "pcm") = 400
                   /\ <<encs[1].text, encs[2].text>> = <<"Hello w", "orld">>

ScenarioWitness == ScenarioRun /\ Len(out) = 3

(***************************************************************************)
(* C4: when the fragment sequence terminates, by done=true or by the end   *)
(* of the transport stream, no text received in a valid record is left     *)
(* un-encoded.                                                             *)
(***************************************************************************)
NoTextLeftAtTermination ==
    (Streaming /\ pc = "returned" /\ AllEncOK)
        => Encoded(encs) = Received(lines)

(***************************************************************************)
(* C5: when the encoder raises during a flush of a streaming run, the      *)
(* pipeline is in the terminal failed state with the error surfaced: it    *)
(* reads no further record and yields no further chunk.                    *)
(***************************************************************************)
EncoderFailureIsTerminal ==
    (Streaming /\ SomeEncFailed) => (pc = "raised" /\ err # "none")

(***************************************************************************)
(* C6: in both paths, when the transport call raises or answers with a     *)
(* non-success status, the request ends with an error surfaced to the      *)
(* caller, the encoder is never invoked and there is exactly one transport *)
(* call.                                                                   *)
(***************************************************************************)
TransportFailed ==
    /\ mode \in {"stream", "complete"}
    /\ posts > 0 /\ (~response.ok \/ response.status # 200)

TransportFailureSurfaced ==
    (variant = "ollama" /\ TransportFailed)
        => (pc = "raised" /\ err # "none" /\ encs = <<>> /\ posts = 1)

(***************************************************************************)
(* C7: with snac_model None every generate_speech call, streaming or not,  *)
(* the first and every later one, raises at once: no output item, no       *)
(* header, no transport call, and the codec stays unavailable.             *)
(***************************************************************************)
UnavailableFailsFastState ==
    (variant = "ollama" /\ snac_model = "None"
       /\ mode \in {"stream", "complete"})
        => /\ pc = "raised" /\ err = "RuntimeError"
           /\ out = <<>> /\ result = NoResult
           /\ posts = 0 /\ encs = <<>> /\ conn = "none"

UnavailableFailsFast ==
    /\ []UnavailableFailsFastState
    /\ [][snac_model = "None" => snac_model' = "None"]_vars

UnavailableWitness ==
    /\ variant = "ollama" /\ snac_model = "None"
    /\ reqs = 2 /\ mode = "stream" /\ pc = "raised"

(***************************************************************************)
(* C8: an unparseable line does not raise: it is logged and skipped, it    *)
(* leaves the buffer and the output unchanged, and the stream still        *)
(* terminates on the following done=true record.                           *)
(***************************************************************************)
HasGarbage == \E i \in 1..Len(lines) : lines[i] = GarbageLine
LastIsDone == lines # <<>> /\ lines[Len(lines)].kind = "record"
                           /\ lines[Len(lines)].done

GarbageSkipped ==
    (Streaming /\ pc = "loop" /\ lines' = Append(lines, GarbageLine))
        => /\ pc' = "loop" /\ err' = err
           /\ buffer' = buffer /\ out' = out /\ encs' = encs
           /\ log' = Append(log, "warning")

TerminatesAfterGarbage ==
    (Streaming /\ HasGarbage /\ LastIsDone /\ AllEncOK)
        => /\ pc \in {"at_chunk", "at_final", "returned", "closed"}
           /\ pc = "at_chunk" => cur_done
           /\ err = "none"

MalformedLineSkipped ==
    /\ [][GarbageSkipped]_vars
    /\ []TerminatesAfterGarbage

MalformedLineWitness ==
    /\ Streaming /\ pc = "returned" /\ err = "none"
    /\ Len(lines) = 3
    /\ lines[1].kind = "record" /\ lines[1].response = "Hel"
    /\ lines[2] = GarbageLine
    /\ lines[3].kind = "record" /\ lines[3].done
    /\ Len(out) = 2 /\ log = <<"warning">>

(***************************************************************************)
(* C9: the process-wide model is initialised at most once, also under      *)
(* concurrently interleaved load_model calls, and every caller receives    *)
(* that one instance.                                                      *)
(***************************************************************************)
ModelInitialisedOnce ==
    variant = "app"
        => /\ built <= 1
           /\ \A h \in Handlers : hmodel[h] \in {0, 1}

(***************************************************************************)
(* C10: non-streaming synthesis of a non-empty text whose codec output has *)
(* N samples returns one container: 1 channel, 16-bit samples, the         *)
(* configured sample rate, a declared data length of 2*N bytes and 2*N     *)
(* bytes of PCM after the 44-byte header.                                  *)
(***************************************************************************)
CompleteContainerExact ==
    (variant = "ollama" /\ mode = "complete" /\ pc = "returned"
       /\ encs # <<>>)
        => /\ Len(encs) = 1 /\ encs[1].ok
           /\ result.kind = "wav"
           /\ result.nchannels = 1
           /\ result.sampwidth = 2
           /\ result.framerate = sample_rate
           /\ result.datalen = 2 * encs[1].n
           /\ result.nbytes = 44 + 2 * encs[1].n

CompleteContainerWitness ==
    /\ variant = "ollama" /\ mode = "complete" /\ pc = "returned"
    /\ sample_rate = 24000
    /\ Len(encs) = 1 /\ encs[1].n = 500 /\ encs[1].text = "Hello world"
    /\ result.kind = "wav" /\ result.datalen = 1000
(***************************************************************************)
(* C12: a successful non-streaming answer with empty content ends the call *)
(* without an error and without any codec call: the result is the empty    *)
(* byte string.                                                            *)
(***************************************************************************)
EmptyContent ==
    /\ variant = "ollama" /\ mode = "complete"
    /\ response = PostStatus(200)
    /\ body.json /\ body.response = ""

EmptyContentNoAudio ==
    EmptyContent => /\ pc = "returned" /\ err = "none"
                    /\ result = [kind |-> "bytes", nbytes |-> 0]
                    /\ encs = <<>>

EmptyContentWitness == EmptyContent /\ pc = "returned" /\ reqs = 1

(***************************************************************************)
(* C13: test_connection never raises: whatever the transport call does, it *)
(* returns a status/message pair whose status is "connected" exactly when  *)
(* the response status is 200 and "error" otherwise; it makes no codec     *)
(* call and leaves the object's state alone.                               *)
(***************************************************************************)
ProbeReturnsPair ==
    (variant = "ollama" /\ mode = "probe")
        => /\ pc = "returned" /\ err = "none"
           /\ encs = <<>> /\ out = <<>>
           /\ probe.status \in {"connected", "error"}
           /\ probe.status = "connected"
                 <=> (response.ok /\ response.status = 200)

ProbeKeepsObject ==
    mode' = "probe" => /\ snac_model' = snac_model
                       /\ sample_rate' = sample_rate
                       /\ reqs' = reqs

ProbeNeverRaises == []ProbeReturnsPair /\ [][ProbeKeepsObject]_vars

ProbeWitness ==
    /\ variant = "ollama" /\ mode = "probe" /\ pc = "returned"
    /\ ~response.ok /\ probe.status = "error"
    /\ reqs > 0
(***************************************************************************)
(* C11: quantisation of a sample s computes s*32767 and saturates: every   *)
(* result lies in [-32768, 32767], and for s outside [-1, 1] it is the     *)
(* nearest 16-bit boundary value, never a wrapped-around one.              *)
(***************************************************************************)
QuantizeSaturates ==
    (fn = "quantize" /\ ret # <<>>)
        => /\ ret[1] >= -32768 /\ ret[1] <= 32767
           /\ arg[1] > SampleDen => ret[1] = 32767
           /\ arg[1] < 0 - SampleDen => ret[1] = -32768

(***************************************************************************)
(* C14: format_prompt(text, voice) is "<voice>: <text>" for each of the    *)
(* eight available voices and "tara: <text>" for any other voice; the text *)
(* is never altered.                                                       *)
(***************************************************************************)
FormatPromptCorrect ==
    (fn = "format_prompt" /\ ret # <<>>)
        => ret[1] = (IF arg[2] \in {"tara", "leah", "jess", "leo",
                                    "dan", "mia", "zac", "zoe"}
                       THEN arg[2] ELSE "tara") \o ": " \o arg[1]

FormatPromptWitness ==
    /\ fn = "format_prompt"
    /\ arg = <<"zoe: hi", "bob">>
    /\ ret = <<"tara: zoe: hi">>
(***************************************************************************)
(* C15: once a record with done=true has been read in a streaming run, the *)
(* pipeline makes at most one further flush (the drain) and terminates: it *)
(* reads no further upstream record and, after the drain chunk, produces   *)
(* no further output item, whatever the buffer and the encoder outcome.    *)
(***************************************************************************)
DoneSeen == \E i \in 1..Len(lines) : lines[i].kind = "record" /\ lines[i].done

SameStreamingRun == Streaming /\ Streaming' /\ reqs' = reqs

DoneStopsReading == (SameStreamingRun /\ DoneSeen) => lines' = lines

DoneStopsOutput ==
    (SameStreamingRun /\ DoneSeen /\ pc \in {"at_final", "returned"})
        => out' = out

DoneIsFinal == [][DoneStopsReading /\ DoneStopsOutput]_vars

DoneIsFinalUnlessEncoderFails ==
    [][AllEncOK' => (DoneStopsReading /\ DoneStopsOutput)]_vars
(***************************************************************************)
(* C16: in a streaming run the transport connection acquired by the        *)
(* request is released on every exit path (done=true, end of stream,       *)
(* non-success status, raised error, consumer abandoning the stream): no   *)
(* terminal state has the connection still held.                           *)
(***************************************************************************)
ConnectionReleasedAtExit ==
    (Streaming /\ pc \in Terminal) => conn # "held"

\* Every exit but the raised error leaves no connection held.
ConnectionReleasedUnlessRaised ==
    (Streaming /\ pc \in {"returned", "closed"}) => conn # "held"

(***************************************************************************)
(* C17: non-streaming synthesis emits nothing to the caller until it is    *)
(* done, its PCM payload equals the in-order concatenation of the PCM      *)
(* chunks the streaming path emits after the header for the same upstream  *)
(* output, and the container is built exactly once after all PCM is        *)
(* buffered.                                                               *)
(***************************************************************************)
\* OrpheusOllama: a non-streaming call that follows a complete streaming run
\* on the same upstream text, the codec giving the same number of samples
\* per call in both.
SameUpstreamOutput ==
    /\ variant = "ollama" /\ mode = "complete" /\ pc = "returned"
    /\ prev.valid /\ encs # <<>>
    /\ encs[1].text = prev.text
    /\ prev.ns = {encs[1].n}

\* The statement as claimed, for OrpheusOllama.
NonStreamingEqualsStreaming ==
    SameUpstreamOutput => result.datalen = prev.nbytes

\* The chunks a /tts/stream handler emitted after its header are the chunks
\* a /tts handler collected.
SameChunks(chunks, emitted) ==
    /\ Len(emitted) = Len(chunks) + 1
    /\ \A i \in 1..Len(chunks) : emitted[i + 1] = AppChunk(chunks[i])

\* app.py: /tts answers nothing before syn_tokens is exhausted, and its
\* payload is the concatenation of the chunks /tts/stream emits for the same
\* chunks.
AppNonStreamingState ==
    variant = "app" =>
        \A h \in Handlers :
            /\ hpc[h] # "resp200" => hresp[h] = NoResult
            /\ (hroute[h] = "tts" /\ hpc[h] = "resp200") =>
                  /\ hresp[h].kind = "wav"
                  /\ hresp[h].datalen = SumSeq(hchunks[h])
                  /\ hresp[h].nbytes = 44 + hresp[h].datalen
                  /\ \A g \in Handlers :
                        (hroute[g] = "stream" /\ hpc[g] = "stream_done"
                           /\ SameChunks(hchunks[h], hout[g]))
                          => /\ hout[g][1] = AppHeader
                             /\ hresp[h].datalen = TotalBytes(hout[g], "pcm")

\* OrpheusOllama: nothing is returned before the call is done, and the
\* payload is the output of one codec call on the whole text.
OllamaNonStreamingState ==
    (variant = "ollama" /\ mode = "complete") =>
        /\ out = <<>>
        /\ pc # "returned" => result = NoResult
        /\ (pc = "returned" /\ encs # <<>>) =>
              /\ Len(encs) = 1 /\ encs[1].text = body.response
              /\ result.datalen = Int16Bytes(encs[1].n)

\* The container, once built, is the response: it is never rebuilt.
ContainerBuiltOnce ==
    \A h \in Handlers :
        /\ hresp[h] # NoResult => hresp'[h] = hresp[h]
        /\ hresp'[h] # hresp[h] => hchunks'[h] = hchunks[h]

NonStreamingBuffersThenBuilds ==
    /\ [](AppNonStreamingState /\ OllamaNonStreamingState)
    /\ [][ContainerBuiltOnce]_vars

NonStreamingWitness ==
    /\ variant = "app"
    /\ hroute[1] = "tts" /\ hpc[1] = "resp200"
    /\ hchunks[1] = <<200, 1000>>
    /\ hroute[2] = "stream" /\ hpc[2] = "stream_done"
    /\ SameChunks(hchunks[1], hout[2])
    /\ hresp[1].datalen = 1200

(***************************************************************************)
(* C18: in a streaming run the texts of the successful flushes, joined in  *)
(* emission order, are a prefix of the joined response fields of the valid *)
(* records read so far: no character is encoded into two emitted chunks or *)
(* reordered, and each successful flush produces exactly one output chunk. *)
(***************************************************************************)
OkEncs == SelectSeq(encs, LAMBDA e : e.ok)

\* The received text is the encoded text followed by what `buffer` still
\* owes, or (after the drain, which leaves `buffer` as it is) exactly the
\* encoded text.
EncodedIsPrefix ==
    \/ Received(lines) = Encoded(encs) \o buffer
    \/ /\ Received(lines) = Encoded(encs)
       /\ OkEncs # <<>> /\ OkEncs[Len(OkEncs)].text = buffer

OneChunkPerFlush ==
    /\ Len(out) = (IF pc = "created" \/ out = <<>> THEN 0 ELSE 1) + Len(OkEncs)
    /\ \A i \in 1..Len(OkEncs) : out[i + 1] = PcmChunk(OkEncs[i].n)

EncodedTextIsPrefixOfReceived ==
    Streaming => EncodedIsPrefix /\ OneChunkPerFlush

EncodedPrefixWitness ==
    /\ Streaming /\ pc = "loop"
    /\ Len(encs) = 2 /\ ~encs[1].ok /\ encs[1].text = "lo w"
    /\ encs[2].ok /\ encs[2].text = "lo world"
    /\ buffer = "Hel" /\ Len(out) = 2

(***************************************************************************)
(* C19: in a streaming run the single transport request is issued only     *)
(* after the header has been emitted and the consumer has asked for the    *)
(* next item: a consumer that stops after the header causes no transport   *)
(* call, and a transport failure or non-success status is observable only  *)
(* when the header is already part of the output.                          *)
(***************************************************************************)
HeaderEmitted == out # <<>> /\ out[1] = StreamHeader(sample_rate)

TransportAfterHeaderState ==
    Streaming =>
        /\ posts <= 1
        /\ posts > 0 => HeaderEmitted
        /\ pc \in {"created", "at_header"} => posts = 0
        /\ (pc = "closed" /\ Len(out) <= 1) => posts = 0
        /\ (err = "TransportError" \/ (response.ok /\ response.status # StatusOK))
              => HeaderEmitted

\* The request is made by the resumption that follows the header.
PostOnlyOnResume ==
    (SameStreamingRun /\ posts' # posts)
        => /\ pc = "at_header" /\ out = <<StreamHeader(sample_rate)>>
           /\ posts = 0 /\ posts' = 1 /\ out' = out

TransportAfterHeader ==
    []TransportAfterHeaderState /\ [][PostOnlyOnResume]_vars

StopAfterHeaderWitness ==
    /\ Streaming /\ pc = "closed"
    /\ out = <<StreamHeader(sample_rate)>>
    /\ posts = 0 /\ response = NoResponse /\ conn = "none"
====
